---- MODULE Spec2Model ----
(***************************************************************************)
(* Model of the KisanMind ML inference service                             *)
(* (src/services/ml-inference/app.py): the image feature extractor, the    *)
(* seeded heuristic soil and crop scorers, and the two upload endpoints.   *)
(*                                                                         *)
(* Numbers.  Python floats are modelled in fixed point: a real x is the    *)
(* integer x * ONE.  Channel means and standard deviations of an image     *)
(* are given in tenths of an intensity level (2550 is 255.0).              *)
(*                                                                         *)
(* Randomness.  np.random.RandomState(seed) is modelled as a generator     *)
(* object [seed, pos]: the seed fixes the whole stream, every draw reads   *)
(* the stream at pos and advances pos by one.  The stream of a seed is its *)
(* expansion in base Levels, so that the seeds range over every stream of  *)
(* StreamLen draws on the grid 0, 1/(Levels-1), ..., 1.                    *)
(***************************************************************************)
EXTENDS Integers, Sequences, FiniteSets, TLC

VARIABLES
    SOIL_TYPES,     \* the module-level soil profile table
    CROP_DISEASES,  \* the module-level disease profile table
    rng,            \* the generator object most recently built by a scorer
    args,           \* the (features, seed) a caller of a scorer holds
    call,           \* the scorer call most recently returned
    earlier,        \* a scorer call remembered from before (for comparisons)
    seen,           \* soil types test_soil_classification has got so far
    conn            \* per client, the upload request being served and its response

vars == <<SOIL_TYPES, CROP_DISEASES, rng, args, call, earlier, seen, conn>>

-----------------------------------------------------------------------------
(* Bounds of the model *)

\* number of grid values a single uniform draw ranges over
Levels == 2

\* largest seed value; with Levels = 2 the seeds 0 .. 2047 are all streams of
\* eleven draws
MaxSeed == 2047

-----------------------------------------------------------------------------
(* Fixed-point arithmetic *)

ONE == 10^5

Max(a, b) == IF a >= b THEN a ELSE b
Min(a, b) == IF a <= b THEN a ELSE b
Abs(a) == IF a >= 0 THEN a ELSE 0 - a

\* x * (n/d) for a decimal weight n/d
Times(x, n, d) == (x * n) \div d

\* Python round(x, k): the nearest multiple of q, halves to the even multiple
Round(x, q) ==
    LET lo == x \div q
        r == x - lo * q
    IN  IF 2 * r < q THEN lo * q
        ELSE IF 2 * r > q THEN (lo + 1) * q
        ELSE IF lo % 2 = 0 THEN lo * q ELSE (lo + 1) * q

\* the decimal n/d as a fixed-point number
Dec(n, d) == (n * ONE) \div d

-----------------------------------------------------------------------------
(* Image analysis helpers *)

\* ImageStat of a decoded RGB image: channel means r, g, b and standard
\* deviations sr, sg, sb, in tenths of a level
Stat(r, g, b, sr, sg, sb) == [r |-> r, g |-> g, b |-> b, sr |-> sr, sg |-> sg, sb |-> sb]

\* n / d of Python floats: the quotient, or no value (0 here) when d is 0 and
\* the division raises ZeroDivisionError
Divide(n, d) == IF d = 0 THEN 0 ELSE n \div d

\* (mutant) the hue indices divided by the brightness itself
brightness_divisor_unguarded(st) == st.r + st.g + st.b

\* max(self.brightness, 1), times 30: with S the sum of the means in tenths,
\* brightness is S/30 and mean / max(brightness, 1) is 3 * mean / max(S, 30)
brightness_divisor(st) == Max(st.r + st.g + st.b, 30)

\* max(max_channel, 1), in tenths
saturation_divisor(st) == Max(Max(st.r, Max(st.g, st.b)), 10)

\* ImageFeatures.__init__; raised tells whether a division raised instead
ImageFeatures(st) ==
    LET S == st.r + st.g + st.b
        max_channel == Max(st.r, Max(st.g, st.b))
        min_channel == Min(st.r, Min(st.g, st.b))
    IN  [ brightness |-> (S * ONE) \div 30,
          redness |-> Divide(3 * st.r * ONE, brightness_divisor(st)),
          greenness |-> Divide(3 * st.g * ONE, brightness_divisor(st)),
          blueness |-> Divide(3 * st.b * ONE, brightness_divisor(st)),
          texture_variance |-> ((st.sr + st.sg + st.sb) * ONE) \div 30,
          saturation |-> Divide((max_channel - min_channel) * ONE, saturation_divisor(st)),
          raised |-> IF brightness_divisor(st) = 0 \/ saturation_divisor(st) = 0
                     THEN "ZeroDivisionError" ELSE "none" ]

-----------------------------------------------------------------------------
(* The seeded generator *)

\* number of draws after which the modelled stream of a seed repeats: the
\* draws of one classify_soil call (one per soil profile, then confidence,
\* pH, organic carbon, nitrogen, phosphorus, potassium)
StreamLen == 5 + 6

\* _deterministic_seed: the first 8 hex digits of the MD5 of the bytes; the
\* digest is not modelled, the bytes of an upload are given by their seed
Seeds == 0 .. MaxSeed

\* no generator has been built yet
NoRng == [seed |-> 0 - 1, pos |-> 0]

\* (mutant) one module-level generator, built by the first call and shared by
\* every later one instead of being built afresh from the seed
RandomState_shared(seed) == IF rng = NoRng THEN [seed |-> seed, pos |-> 0] ELSE rng

\* np.random.RandomState(seed): a fresh generator at the start of the stream
RandomState(seed) == [seed |-> seed, pos |-> 0]

\* the generator after n more draws
Advance(g, n) == [g EXCEPT !.pos = @ + n]

\* the k-th next raw draw of generator g, a grid index in 0 .. Levels-1
Sample(g, k) == (g.seed \div (Levels^((g.pos + k) % StreamLen))) % Levels

\* the k-th next rng.uniform(lo, hi) of generator g
Uniform(g, k, lo, hi) == lo + ((hi - lo) * Sample(g, k)) \div (Levels - 1)

-----------------------------------------------------------------------------
(* Soil classification *)

SoilTable ==
    << [ type |-> "Black Cotton Soil (Vertisol)",
         description |-> "Deep black soil rich in clay, excellent moisture retention",
         suitable_crops |-> <<"Cotton", "Soybean", "Sorghum", "Wheat", "Chickpea", "Sunflower">>,
         ph_range |-> <<Dec(75, 10), Dec(85, 10)>>,
         organic_carbon_pct |-> <<Dec(4, 10), Dec(8, 10)>>,
         drainage |-> "poor",
         india_regions |-> <<"Vidarbha", "Marathwada", "Madhya Pradesh", "Gujarat">> ],
       [ type |-> "Red Soil (Alfisol)",
         description |-> "Iron-rich reddish soil with moderate fertility",
         suitable_crops |-> <<"Groundnut", "Millets", "Pulses", "Tobacco", "Potato", "Rice">>,
         ph_range |-> <<Dec(55, 10), Dec(70, 10)>>,
         organic_carbon_pct |-> <<Dec(3, 10), Dec(6, 10)>>,
         drainage |-> "moderate",
         india_regions |-> <<"Tamil Nadu", "Karnataka", "Andhra Pradesh", "Odisha">> ],
       [ type |-> "Alluvial Soil",
         description |-> "Fertile, well-drained soil deposited by rivers",
         suitable_crops |-> <<"Rice", "Wheat", "Sugarcane", "Maize", "Vegetables", "Jute">>,
         ph_range |-> <<Dec(60, 10), Dec(75, 10)>>,
         organic_carbon_pct |-> <<Dec(5, 10), Dec(10, 10)>>,
         drainage |-> "good",
         india_regions |-> <<"Punjab", "Uttar Pradesh", "Bihar", "West Bengal">> ],
       [ type |-> "Laterite Soil",
         description |-> "Leached acidic soil, common in high-rainfall areas",
         suitable_crops |-> <<"Tea", "Coffee", "Rubber", "Cashew", "Coconut", "Arecanut">>,
         ph_range |-> <<Dec(45, 10), Dec(60, 10)>>,
         organic_carbon_pct |-> <<Dec(2, 10), Dec(5, 10)>>,
         drainage |-> "excessive",
         india_regions |-> <<"Kerala", "Konkan", "Goa", "Meghalaya">> ],
       [ type |-> "Sandy Loam",
         description |-> "Light-textured soil with good drainage, low water retention",
         suitable_crops |-> <<"Bajra", "Jowar", "Guar", "Mustard", "Cumin", "Groundnut">>,
         ph_range |-> <<Dec(65, 10), Dec(80, 10)>>,
         organic_carbon_pct |-> <<Dec(2, 10), Dec(4, 10)>>,
         drainage |-> "excessive",
         india_regions |-> <<"Rajasthan", "Haryana", "Gujarat (Kutch)">> ] >>

\* Black Cotton: dark, low saturation, high texture variance
black_score(f) ==
    Times(ONE - f.brightness \div 255, 2, 1)
    + (ONE - f.saturation)
    + Times(Min(f.texture_variance \div 60, ONE), 5, 10)

\* Red Soil: high redness, moderate brightness
red_score(f) ==
    Times(f.redness, 2, 1)
    + (ONE - Abs(f.brightness - 120 * ONE) \div 120)
    - Times(f.greenness, 5, 10)

\* Alluvial: moderate everything, slightly green-brown
alluvial_score(f) ==
    Times(ONE - Abs(f.brightness - 140 * ONE) \div 140, 15, 10)
    + Times(ONE - f.saturation, 5, 10)
    + (ONE - Abs(f.redness - f.greenness))

\* Laterite: reddish-orange, high texture variance
laterite_score(f) ==
    Times(f.redness, 15, 10)
    + f.saturation
    + Min(f.texture_variance \div 70, ONE)
    - Times(f.greenness, 3, 10)

\* Sandy: very bright, low texture variance
sandy_score(f) ==
    Times(f.brightness \div 255, 2, 1)
    + (ONE - Min(f.texture_variance \div 40, ONE))
    + Times(f.saturation, 3, 10)

\* the five pre-noise scores, in the order they are appended
soil_scores(f) ==
    <<black_score(f), red_score(f), alluvial_score(f), laterite_score(f), sandy_score(f)>>

\* (mutant) the noise amplitude 0.2 mistyped as 2.0
noisy_scores_wide(scores, g) ==
    [i \in 1 .. Len(scores) |-> scores[i] + Uniform(g, i - 1, 0 - 2 * ONE, 2 * ONE)]

\* scores plus rng.uniform(-0.2, 0.2, size=len(scores)): draws 0 .. len-1 of g
noisy_scores(scores, g) ==
    [i \in 1 .. Len(scores) |-> scores[i] + Uniform(g, i - 1, 0 - Dec(2, 10), Dec(2, 10))]

\* (mutant) the last index holding the maximum
argmax_last(scores) ==
    CHOOSE i \in 1 .. Len(scores) :
        /\ \A j \in 1 .. Len(scores) : scores[j] <= scores[i]
        /\ \A j \in (i + 1) .. Len(scores) : scores[j] < scores[i]

\* np.argmax: the first index holding the maximum
argmax(scores) ==
    CHOOSE i \in 1 .. Len(scores) :
        /\ \A j \in 1 .. Len(scores) : scores[j] <= scores[i]
        /\ \A j \in 1 .. (i - 1) : scores[j] < scores[i]

\* sorted(scores, reverse=True)[0] - sorted(...)[1], or 1.0 for a single score
score_margin(scores) ==
    IF Len(scores) > 1
    THEN LET top == argmax(scores)
             second == CHOOSE j \in (1 .. Len(scores)) \ {top} :
                           \A k \in (1 .. Len(scores)) \ {top} : scores[k] <= scores[j]
         IN  scores[top] - scores[second]
    ELSE ONE

\* (mutant) the final clamp written in percent, on a confidence that is a fraction
soil_confidence_percent(margin, noise) ==
    LET base_confidence == Min(Dec(65, 100) + Times(margin, 12, 100), Dec(96, 100))
        confidence == Round(base_confidence + noise, Dec(1, 100))
    IN  Max(60 * ONE, Min(96 * ONE, confidence))

\* confidence from the margin and the draw noise = rng.uniform(-0.03, 0.03)
soil_confidence(margin, noise) ==
    LET base_confidence == Min(Dec(65, 100) + Times(margin, 12, 100), Dec(96, 100))
        confidence == Round(base_confidence + noise, Dec(1, 100))
    IN  Max(Dec(60, 100), Min(Dec(96, 100), confidence))

\* (mutant) the thresholds taken inclusively
soil_texture_inclusive(texture_variance) ==
    IF texture_variance >= 50 * ONE THEN "clayey"
    ELSE IF texture_variance >= 30 * ONE THEN "loamy"
    ELSE "sandy"

\* texture classification based on image texture variance
soil_texture(texture_variance) ==
    IF texture_variance > 50 * ONE THEN "clayey"
    ELSE IF texture_variance > 30 * ONE THEN "loamy"
    ELSE "sandy"

\* the sequence s with x appended when cond holds
AppendIf(s, cond, x) == IF cond THEN Append(s, x) ELSE s

\* (mutant) the phosphorus check made before the nitrogen check
soil_recommendations_swapped(ph, organic_carbon, nitrogen_kg_ha, phosphorus_kg_ha, drainage) ==
    LET r1 == AppendIf(<< >>, ph > Dec(75, 10),
                  "Apply gypsum (2-3 tonnes/ha) to reduce alkalinity")
        r2 == AppendIf(r1, ph < Dec(55, 10),
                  "Apply agricultural lime (1-2 tonnes/ha) to correct acidity")
        r3 == AppendIf(r2, organic_carbon < Dec(5, 10),
                  "Increase organic matter with FYM (10-15 tonnes/ha) or green manure")
        r4 == AppendIf(r3, phosphorus_kg_ha < 15 * ONE,
                  "Apply phosphorus (DAP 50-100 kg/ha) at sowing time")
        r5 == AppendIf(r4, nitrogen_kg_ha < 200 * ONE,
                  "Apply nitrogen fertilizer (urea 100-150 kg/ha) in split doses")
        r6 == AppendIf(r5, drainage = "poor",
                  "Create raised beds or ridges to improve drainage during monsoon")
    IN  AppendIf(r6, drainage = "excessive",
                  "Apply mulch (5-7 cm) to conserve soil moisture")

\* recommendations based on soil type
soil_recommendations(ph, organic_carbon, nitrogen_kg_ha, phosphorus_kg_ha, drainage) ==
    LET r1 == AppendIf(<< >>, ph > Dec(75, 10),
                  "Apply gypsum (2-3 tonnes/ha) to reduce alkalinity")
        r2 == AppendIf(r1, ph < Dec(55, 10),
                  "Apply agricultural lime (1-2 tonnes/ha) to correct acidity")
        r3 == AppendIf(r2, organic_carbon < Dec(5, 10),
                  "Increase organic matter with FYM (10-15 tonnes/ha) or green manure")
        r4 == AppendIf(r3, nitrogen_kg_ha < 200 * ONE,
                  "Apply nitrogen fertilizer (urea 100-150 kg/ha) in split doses")
        r5 == AppendIf(r4, phosphorus_kg_ha < 15 * ONE,
                  "Apply phosphorus (DAP 50-100 kg/ha) at sowing time")
        r6 == AppendIf(r5, drainage = "poor",
                  "Create raised beds or ridges to improve drainage during monsoon")
    IN  AppendIf(r6, drainage = "excessive",
                  "Apply mulch (5-7 cm) to conserve soil moisture")

\* the image_analysis block of a result
image_analysis(f) ==
    [ brightness |-> Round(f.brightness, Dec(1, 10)),
      redness_index |-> Round(f.redness, Dec(1, 1000)),
      greenness_index |-> Round(f.greenness, Dec(1, 1000)),
      texture_variance |-> Round(f.texture_variance, Dec(1, 10)),
      saturation |-> Round(f.saturation, Dec(1, 1000)) ]

\* what each successive rng.uniform draw of classify_soil is used for, in
\* the order the statements make them: the size-5 draw of the score noise,
\* then confidence, pH, organic carbon, nitrogen, phosphorus, potassium
soil_draws ==
    << "score_noise", "score_noise", "score_noise", "score_noise", "score_noise",
       "confidence", "estimated_ph", "organic_carbon_pct",
       "nitrogen_kg_ha", "phosphorus_kg_ha", "potassium_kg_ha" >>

\* how many draws precede the draw made for the field
drawn_before(field) ==
    (CHOOSE k \in 1 .. Len(soil_draws) : soil_draws[k] = field) - 1

\* (mutant) the pH rounded to a whole number: round() without its digits
estimated_ph_whole(g, soil) ==
    Round(Uniform(g, drawn_before("estimated_ph"), soil.ph_range[1], soil.ph_range[2]), ONE)

\* ph = round(rng.uniform(*soil["ph_range"]), 1), soil being the selected profile
estimated_ph(g, soil) ==
    Round(Uniform(g, drawn_before("estimated_ph"), soil.ph_range[1], soil.ph_range[2]),
          Dec(1, 10))

\* classify_soil(features, seed), drawing from the generator g built for the
\* call, each field from its draw of soil_draws
classify_soil_with(f, g) ==
    LET scores == noisy_scores(soil_scores(f), g)
        best_idx == argmax(scores)
        soil == SOIL_TYPES[best_idx]
        confidence == soil_confidence(score_margin(scores),
                          Uniform(g, drawn_before("confidence"), 0 - Dec(3, 100), Dec(3, 100)))
        ph == estimated_ph(g, soil)
        organic_carbon ==
            Round(Uniform(g, drawn_before("organic_carbon_pct"),
                          soil.organic_carbon_pct[1], soil.organic_carbon_pct[2]),
                  Dec(1, 100))
        nitrogen_kg_ha ==
            Round(Uniform(g, drawn_before("nitrogen_kg_ha"), 120 * ONE, 350 * ONE), ONE)
        phosphorus_kg_ha ==
            Round(Uniform(g, drawn_before("phosphorus_kg_ha"), 8 * ONE, 45 * ONE), ONE)
        potassium_kg_ha ==
            Round(Uniform(g, drawn_before("potassium_kg_ha"), 100 * ONE, 400 * ONE), ONE)
    IN  [ soil_type |-> soil.type,
          soil_description |-> soil.description,
          confidence |-> confidence,
          texture |-> soil_texture(f.texture_variance),
          estimated_ph |-> ph,
          organic_carbon_pct |-> organic_carbon,
          drainage |-> soil.drainage,
          nutrients |-> [ nitrogen_kg_ha |-> nitrogen_kg_ha,
                          phosphorus_kg_ha |-> phosphorus_kg_ha,
                          potassium_kg_ha |-> potassium_kg_ha ],
          suitable_crops |-> soil.suitable_crops,
          common_regions |-> soil.india_regions,
          recommendations |-> soil_recommendations(ph, organic_carbon, nitrogen_kg_ha,
                                  phosphorus_kg_ha, soil.drainage),
          image_analysis |-> image_analysis(f) ]

classify_soil(f, seed) == classify_soil_with(f, RandomState(seed))

\* (mutant) the crops of the selected row cut to three in place for the result
soil_types_after_trimmed(table, best_idx) ==
    [table EXCEPT ![best_idx].suitable_crops = SubSeq(@, 1, 3)]

\* the table once classify_soil has returned: the selected row is only read,
\* and the result holds its lists without changing them
soil_types_after(table, best_idx) == table

\* SOIL_TYPES after classify_soil(f, seed)
soil_types_after_call(f, seed) ==
    soil_types_after(SOIL_TYPES,
                     argmax(noisy_scores(soil_scores(f), RandomState(seed))))
-----------------------------------------------------------------------------
(* Crop disease detection *)

DiseaseTable ==
    << [ name |-> "Leaf Blight",
         description |-> "Fungal infection causing brown lesions on leaves",
         severity |-> "moderate",
         treatment |-> "Apply Mancozeb 75% WP (2g/L) or Copper Oxychloride spray",
         prevention |-> "Use disease-resistant varieties, ensure proper spacing for air circulation",
         trigger |-> "brownish" ],
       [ name |-> "Powdery Mildew",
         description |-> "White powdery fungal growth on leaf surfaces",
         severity |-> "moderate",
         treatment |-> "Spray Karathane (0.05%) or Sulfur dust (25 kg/ha)",
         prevention |-> "Avoid excessive nitrogen, maintain proper plant spacing",
         trigger |-> "whitish" ],
       [ name |-> "Rust",
         description |-> "Orange-brown pustules on leaf undersides causing yield loss",
         severity |-> "high",
         treatment |-> "Apply Propiconazole 25 EC (1ml/L) immediately",
         prevention |-> "Plant resistant varieties, remove crop residue after harvest",
         trigger |-> "orange" ],
       [ name |-> "Bacterial Wilt",
         description |-> "Bacterial infection causing sudden wilting and plant death",
         severity |-> "high",
         treatment |-> "Remove infected plants, apply Streptocycline (0.01%) soil drench",
         prevention |-> "Crop rotation with non-host crops, avoid waterlogging",
         trigger |-> "wilting" ],
       [ name |-> "Aphid Infestation",
         description |-> "Sap-sucking insects causing leaf curl and stunted growth",
         severity |-> "low",
         treatment |-> "Spray Imidacloprid 17.8 SL (0.3ml/L) or neem oil (5ml/L)",
         prevention |-> "Release natural predators (ladybugs), use yellow sticky traps",
         trigger |-> "curling" ] >>

\* (mutant) the clamp to [0.1, 1.0] left out
crop_health_score_unclamped(f, noise) ==
    LET green_dominance == f.greenness - Max(f.redness, f.blueness)
        brightness_factor == ONE - Abs(f.brightness - 130 * ONE) \div 200
        base_health == Dec(5, 10) + Times(green_dominance, 5, 10)
                       + Times(brightness_factor, 2, 10)
                       + Times(f.saturation, 15, 100)
    IN  Round(base_health + noise, Dec(1, 100))

\* overall health score; noise = rng.uniform(-0.1, 0.1)
crop_health_score(f, noise) ==
    LET green_dominance == f.greenness - Max(f.redness, f.blueness)
        brightness_factor == ONE - Abs(f.brightness - 130 * ONE) \div 200
        base_health == Dec(5, 10) + Times(green_dominance, 5, 10)
                       + Times(brightness_factor, 2, 10)
                       + Times(f.saturation, 15, 100)
    IN  Round(Max(Dec(1, 10), Min(ONE, base_health + noise)), Dec(1, 100))

\* (mutant) the greenness condition of the blight trigger left out
blight_trigger_no_green(f) ==
    f.redness > Dec(38, 100) /\ f.brightness < 160 * ONE

\* the five trigger conditions, in evaluation order
blight_trigger(f) ==
    f.redness > Dec(38, 100) /\ f.greenness < Dec(4, 10) /\ f.brightness < 160 * ONE

\* (mutant) the brightness threshold 170 mistyped as 230
mildew_trigger_230(f) ==
    f.brightness > 230 * ONE /\ f.saturation < Dec(3, 10)

mildew_trigger(f) ==
    f.brightness > 170 * ONE /\ f.saturation < Dec(3, 10)

rust_trigger(f) ==
    /\ f.redness > Dec(42, 100) /\ f.greenness < Dec(35, 100)
    /\ 100 * ONE < f.brightness /\ f.brightness < 180 * ONE

\* (mutant) the greenness condition of the wilt trigger left out
wilt_trigger_no_green(f) ==
    f.saturation < Dec(25, 100) /\ f.brightness < 140 * ONE

wilt_trigger(f) ==
    f.saturation < Dec(25, 100) /\ f.brightness < 140 * ONE /\ f.greenness < Dec(38, 100)

aphid_trigger(f) ==
    f.texture_variance > 45 * ONE /\ f.greenness > Dec(35, 100)

\* (mutant) the confidence noise drawn from (0, 1) instead of (0, spread)
disease_entry_wide(g, name, severity, base, spread, lo, hi, idx) ==
    [ disease |-> name,
      confidence |-> Round(base + Uniform(g, 0, 0, ONE), Dec(1, 100)),
      severity |-> severity,
      affected_area_pct |-> Round(Uniform(g, 1, lo * ONE, hi * ONE), ONE),
      treatment |-> CROP_DISEASES[idx].treatment,
      prevention |-> CROP_DISEASES[idx].prevention ]

\* one detected_diseases entry, taking the next two draws of g: the confidence
\* round(base + rng.uniform(0, spread), 2), then the affected area
\* round(rng.uniform(lo, hi), 0); idx is the row of CROP_DISEASES read
disease_entry(g, name, severity, base, spread, lo, hi, idx) ==
    [ disease |-> name,
      confidence |-> Round(base + Uniform(g, 0, 0, spread), Dec(1, 100)),
      severity |-> severity,
      affected_area_pct |-> Round(Uniform(g, 1, lo * ONE, hi * ONE), ONE),
      treatment |-> CROP_DISEASES[idx].treatment,
      prevention |-> CROP_DISEASES[idx].prevention ]

\* one trigger of the detection pass: d = [list, g] is the list so far and the
\* generator; when cond holds the entry is appended and g advances two draws
detect(d, cond, name, severity, base, spread, lo, hi, idx) ==
    IF cond
    THEN [ list |-> Append(d.list, disease_entry(d.g, name, severity, base, spread, lo, hi, idx)),
           g |-> Advance(d.g, 2) ]
    ELSE d

\* (mutant) the Rust entry reading the table row of Powdery Mildew, its
\* index copied from the block above
detect_diseases_copied_index(f, g) ==
    LET d0 == [list |-> << >>, g |-> g]
        d1 == detect(d0, blight_trigger(f), "Leaf Blight", "moderate",
                     Dec(72, 100), Dec(18, 100), 10, 40, 1)
        d2 == detect(d1, mildew_trigger(f), "Powdery Mildew", "moderate",
                     Dec(68, 100), Dec(20, 100), 5, 25, 2)
        d3 == detect(d2, rust_trigger(f), "Rust", "high",
                     Dec(75, 100), Dec(17, 100), 15, 50, 2)
        d4 == detect(d3, wilt_trigger(f), "Bacterial Wilt", "high",
                     Dec(65, 100), Dec(20, 100), 20, 60, 4)
    IN  detect(d4, aphid_trigger(f), "Aphid Infestation", "low",
               Dec(60, 100), Dec(22, 100), 5, 20, 5)

\* (mutant) the rust check chained to the blight check by elif
detect_diseases_elif(f, g) ==
    LET d0 == [list |-> << >>, g |-> g]
        d1 == detect(d0, blight_trigger(f), "Leaf Blight", "moderate",
                     Dec(72, 100), Dec(18, 100), 10, 40, 1)
        d2 == detect(d1, mildew_trigger(f), "Powdery Mildew", "moderate",
                     Dec(68, 100), Dec(20, 100), 5, 25, 2)
        d3 == detect(d2, rust_trigger(f) /\ ~blight_trigger(f), "Rust", "high",
                     Dec(75, 100), Dec(17, 100), 15, 50, 3)
        d4 == detect(d3, wilt_trigger(f), "Bacterial Wilt", "high",
                     Dec(65, 100), Dec(20, 100), 20, 60, 4)
    IN  detect(d4, aphid_trigger(f), "Aphid Infestation", "low",
               Dec(60, 100), Dec(22, 100), 5, 20, 5)

\* the detection pass of analyze_crop_health, from generator g
detect_diseases(f, g) ==
    LET d0 == [list |-> << >>, g |-> g]
        d1 == detect(d0, blight_trigger(f), "Leaf Blight", "moderate",
                     Dec(72, 100), Dec(18, 100), 10, 40, 1)
        d2 == detect(d1, mildew_trigger(f), "Powdery Mildew", "moderate",
                     Dec(68, 100), Dec(20, 100), 5, 25, 2)
        d3 == detect(d2, rust_trigger(f), "Rust", "high",
                     Dec(75, 100), Dec(17, 100), 15, 50, 3)
        d4 == detect(d3, wilt_trigger(f), "Bacterial Wilt", "high",
                     Dec(65, 100), Dec(20, 100), 20, 60, 4)
    IN  detect(d4, aphid_trigger(f), "Aphid Infestation", "low",
               Dec(60, 100), Dec(22, 100), 5, 20, 5)

\* the entries of high severity
high_severity(diseases) == SelectSeq(diseases, LAMBDA d : d.severity = "high")

\* (mutant) the URGENT message naming the number of all detected diseases
crop_assessment_count_all(health_score, detected_diseases) ==
    IF detected_diseases = << >>
    THEN IF health_score >= Dec(7, 10)
         THEN [kind |-> "healthy", count |-> 0]
         ELSE [kind |-> "monitor", count |-> 0]
    ELSE IF high_severity(detected_diseases) # << >>
         THEN [kind |-> "urgent", count |-> Len(detected_diseases)]
         ELSE [kind |-> "treatment", count |-> Len(detected_diseases)]

\* overall assessment: [kind, count] stands for the message text, count being
\* the number the text names
crop_assessment(health_score, detected_diseases) ==
    IF detected_diseases = << >>
    THEN IF health_score >= Dec(7, 10)
         THEN [kind |-> "healthy", count |-> 0]
         ELSE [kind |-> "monitor", count |-> 0]
    ELSE IF high_severity(detected_diseases) # << >>
         THEN [kind |-> "urgent", count |-> Len(high_severity(detected_diseases))]
         ELSE [kind |-> "treatment", count |-> Len(detected_diseases)]

\* (mutant) the flowering check made before the vegetative check
growth_stage_flowering_first(f) ==
    IF f.greenness > Dec(38, 100) THEN "Flowering/Reproductive"
    ELSE IF f.greenness > Dec(42, 100) /\ f.texture_variance > 35 * ONE
    THEN "Vegetative (active growth)"
    ELSE IF f.brightness > 160 * ONE /\ f.saturation < Dec(25, 100)
    THEN "Maturity (ready for harvest)"
    ELSE "Early/Seedling"

\* growth stage estimation based on greenness and texture
growth_stage(f) ==
    IF f.greenness > Dec(42, 100) /\ f.texture_variance > 35 * ONE
    THEN "Vegetative (active growth)"
    ELSE IF f.greenness > Dec(38, 100) THEN "Flowering/Reproductive"
    ELSE IF f.brightness > 160 * ONE /\ f.saturation < Dec(25, 100)
    THEN "Maturity (ready for harvest)"
    ELSE "Early/Seedling"

\* (mutant) the default maintenance lines left out
_crop_recommendations_no_default(health_score, diseases, f) ==
    LET r1 == AppendIf(<< >>, health_score < Dec(5, 10),
                  "Immediate soil testing recommended to check nutrient deficiencies")
        r2 == AppendIf(r1, diseases # << >>,
                  "Isolate affected plants to prevent spread to healthy ones")
        high == diseases # << >> /\ \E i \in 1 .. Len(diseases) : diseases[i].severity = "high"
        r3 == AppendIf(r2, high,
                  "Contact local Krishi Vigyan Kendra (KVK) for expert diagnosis")
        r4 == AppendIf(r3, high,
                  "Consider crop insurance claim if yield loss exceeds 33%")
        r5 == AppendIf(r4, f.greenness < Dec(35, 100),
                  "Apply foliar nitrogen spray (2% urea) for quick green-up")
    IN  AppendIf(r5, f.brightness > 180 * ONE,
                  "Increase irrigation frequency - plants may be water-stressed")

\* (mutant) the expert-contact and insurance lines appended for any disease
_crop_recommendations_ungated(health_score, diseases, f) ==
    LET r1 == AppendIf(<< >>, health_score < Dec(5, 10),
                  "Immediate soil testing recommended to check nutrient deficiencies")
        r2 == AppendIf(r1, diseases # << >>,
                  "Isolate affected plants to prevent spread to healthy ones")
        r3 == AppendIf(r2, diseases # << >>,
                  "Contact local Krishi Vigyan Kendra (KVK) for expert diagnosis")
        r4 == AppendIf(r3, diseases # << >>,
                  "Consider crop insurance claim if yield loss exceeds 33%")
        r5 == AppendIf(r4, f.greenness < Dec(35, 100),
                  "Apply foliar nitrogen spray (2% urea) for quick green-up")
        r6 == AppendIf(r5, f.brightness > 180 * ONE,
                  "Increase irrigation frequency - plants may be water-stressed")
    IN  IF r6 = << >>
        THEN << "Continue current management practices",
                "Monitor weekly for any emerging pest or disease symptoms",
                "Apply preventive fungicide spray during wet weather periods" >>
        ELSE r6

\* Generate actionable recommendations based on crop analysis
_crop_recommendations(health_score, diseases, f) ==
    LET r1 == AppendIf(<< >>, health_score < Dec(5, 10),
                  "Immediate soil testing recommended to check nutrient deficiencies")
        r2 == AppendIf(r1, diseases # << >>,
                  "Isolate affected plants to prevent spread to healthy ones")
        high == diseases # << >> /\ \E i \in 1 .. Len(diseases) : diseases[i].severity = "high"
        r3 == AppendIf(r2, high,
                  "Contact local Krishi Vigyan Kendra (KVK) for expert diagnosis")
        r4 == AppendIf(r3, high,
                  "Consider crop insurance claim if yield loss exceeds 33%")
        r5 == AppendIf(r4, f.greenness < Dec(35, 100),
                  "Apply foliar nitrogen spray (2% urea) for quick green-up")
        r6 == AppendIf(r5, f.brightness > 180 * ONE,
                  "Increase irrigation frequency - plants may be water-stressed")
    IN  IF r6 = << >>
        THEN << "Continue current management practices",
                "Monitor weekly for any emerging pest or disease symptoms",
                "Apply preventive fungicide spray during wet weather periods" >>
        ELSE r6

\* analyze_crop_health(features, seed), drawing from the generator g built for
\* the call: draw 0 is the health noise, then two draws per detected disease
analyze_crop_health_with(f, g) ==
    LET health_score == crop_health_score(f, Uniform(g, 0, 0 - Dec(1, 10), Dec(1, 10)))
        detected_diseases == detect_diseases(f, Advance(g, 1)).list
    IN  [ health_score |-> health_score,
          assessment |-> crop_assessment(health_score, detected_diseases),
          growth_stage |-> growth_stage(f),
          detected_diseases |-> detected_diseases,
          disease_count |-> Len(detected_diseases),
          recommendations |-> _crop_recommendations(health_score, detected_diseases, f),
          image_analysis |-> image_analysis(f) ]

analyze_crop_health(f, seed) == analyze_crop_health_with(f, RandomState(seed))
-----------------------------------------------------------------------------
(* Direct calls of the scorers, as test_app.py makes them *)

\* solid-colour image of the given 8-bit colour (every standard deviation 0)
Solid(r, g, b) == Stat(r * 10, g * 10, b * 10, 0, 0, 0)

\* image of mean colour (r, g, b) whose three channels all have deviation sd
Textured(r, g, b, sd) == Stat(r * 10, g * 10, b * 10, sd * 10, sd * 10, sd * 10)

DarkImage == Solid(30, 25, 20)
RedImage == Solid(180, 80, 60)
BrightImage == Solid(220, 210, 180)
GreenImage == Solid(50, 160, 50)
BrownImage == Solid(150, 90, 50)
WhiteImage == Solid(230, 230, 225)

\* a purple whose Red Soil and Laterite scores are both exactly 2.5
TieImage == Solid(60, 0, 120)

\* the images of test_app.py, and further ones reaching every branch of the
\* scorers: grey, black, full white, a half-level image, crimson and
\* magenta-red (blight, rust), textured ones at and around the texture
\* thresholds 30, 35, 45 and 50, the extremes: pure red, and half black
\* half white (the largest deviation an 8-bit channel can have), one whose
\* two best scores tie, and a bright, pale, textured green
Images ==
    { DarkImage, RedImage, BrightImage, GreenImage, BrownImage, WhiteImage,
      Solid(100, 80, 60), Solid(140, 140, 140), Solid(0, 0, 0), Solid(255, 255, 255),
      Stat(5, 5, 5, 0, 0, 0), Solid(200, 30, 60), Solid(250, 30, 80),
      Textured(120, 120, 120, 30), Textured(90, 130, 80, 40),
      Textured(100, 140, 100, 50), Textured(128, 128, 128, 60),
      Textured(200, 60, 40, 70), Solid(255, 0, 0),
      Stat(1275, 1275, 1275, 1275, 1275, 1275), TieImage,
      Textured(200, 210, 190, 40) }

NoCall == [fn |-> "none"]

\* the remembered call e once a call of fn on (features, seed) has returned:
\* e notes whether a call on other arguments was made since it was remembered
Noted(e, fn, features, seed) ==
    IF e.fn # "none" /\ (e.fn # fn \/ e.features # features \/ e.seed # seed)
    THEN [e EXCEPT !.between = TRUE]
    ELSE e

\* r = classify_soil(features, seed), for a caller that has its features
ClassifySoilCall ==
    /\ args.features.raised = "none"
    /\ call' = [ fn |-> "classify_soil", features |-> args.features, seed |-> args.seed,
                 result |-> classify_soil(args.features, args.seed) ]
    /\ rng' = Advance(RandomState(args.seed), Len(soil_draws))
    /\ SOIL_TYPES' = soil_types_after_call(args.features, args.seed)
    /\ earlier' = Noted(earlier, "classify_soil", args.features, args.seed)
    /\ UNCHANGED <<CROP_DISEASES, args, seen, conn>>

\* r = analyze_crop_health(features, seed), for a caller that has its features
AnalyzeCropHealthCall ==
    /\ args.features.raised = "none"
    /\ call' = [ fn |-> "analyze_crop_health", features |-> args.features, seed |-> args.seed,
                 result |-> analyze_crop_health(args.features, args.seed) ]
    /\ rng' = detect_diseases(args.features, Advance(RandomState(args.seed), 1)).g
    /\ earlier' = Noted(earlier, "analyze_crop_health", args.features, args.seed)
    /\ UNCHANGED <<SOIL_TYPES, CROP_DISEASES, args, seen, conn>>

\* the caller keeps the result it has as r1 for a later comparison
\* (test_deterministic), and has no current result until its next call
Remember ==
    /\ call # NoCall
    /\ earlier' = [ fn |-> call.fn, features |-> call.features, seed |-> call.seed,
                    result |-> call.result, between |-> FALSE ]
    /\ call' = NoCall
    /\ UNCHANGED <<SOIL_TYPES, CROP_DISEASES, rng, args, seen, conn>>

\* the caller turns to other features and another seed
NewArgs(argset) ==
    /\ args' \in argset
    /\ UNCHANGED <<SOIL_TYPES, CROP_DISEASES, rng, call, earlier, seen, conn>>

\* the images test_soil_classification classifies, in its order
TestSoilImages == <<DarkImage, RedImage, BrightImage>>

\* the seeds whose streams range over every combination of the score-noise
\* draws, one per soil profile; no later draw reaches soil_type
TestSeeds == 0 .. (Levels^Len(SoilTable) - 1)

\* one step of test_soil_classification: the next image is classified with the
\* seed of its PNG bytes (any seed: the digest is not modelled) and its
\* soil_type is kept
TestSoilStep ==
    /\ Len(seen) < Len(TestSoilImages)
    /\ \E seed \in TestSeeds :
         /\ seen' = Append(seen,
                      classify_soil(ImageFeatures(TestSoilImages[Len(seen) + 1]), seed).soil_type)
         /\ rng' = Advance(RandomState(seed), StreamLen)
         /\ SOIL_TYPES' = soil_types_after_call(ImageFeatures(TestSoilImages[Len(seen) + 1]),
                                                seed)
    /\ UNCHANGED <<CROP_DISEASES, args, call, earlier, conn>>

-----------------------------------------------------------------------------
(* API endpoints *)

\* 20 * 1024 * 1024, the 20 MB limit
SizeLimit == 20 * 1024 * 1024

\* an uploaded file: the number of bytes read, what PIL makes of them
\* ("ok", "unidentified": Image.open raises, "truncated": convert raises;
\* "unreadable": await image.read() itself raises and no bytes are had),
\* and for a decodable image its size, its statistics and the seed
\* _deterministic_seed gives its bytes
Upload(len, decode, st, seed) ==
    [len |-> len, decode |-> decode, width |-> 200, height |-> 200, stat |-> st, seed |-> seed]

NoLocation == [given |-> FALSE]
Vidarbha == [given |-> TRUE, latitude |-> 209374, longitude |-> 777796]

\* (mutant) a missing or empty content type rejected as well
not_image_type_strict(content_type) ==
    content_type \notin {"image/png", "image/jpeg"}

\* image.content_type and not image.content_type.startswith("image/");
\* "none" stands for a missing content type (None)
not_image_type(content_type) ==
    /\ content_type # "none" /\ content_type # ""
    /\ content_type \notin {"image/png", "image/jpeg"}

HTTPException(status_code, detail) ==
    [raised |-> "HTTPException", status_code |-> status_code, detail |-> detail]

Exception(message) == [raised |-> "Exception", message |-> message]

Return(value) == [raised |-> "none", value |-> value]

\* Image.open(io.BytesIO(contents)) followed by ImageFeatures(img)
decode_features(upload) ==
    IF upload.decode = "unidentified" THEN Exception("cannot identify image file")
    ELSE IF upload.decode = "truncated" THEN Exception("image file is truncated")
    ELSE IF ImageFeatures(upload.stat).raised # "none"
    THEN Exception(ImageFeatures(upload.stat).raised)
    ELSE Return(ImageFeatures(upload.stat))

\* the calls decode_features has entered when it ends: Image.open raises on
\* bytes that are no image, ImageFeatures on an image it cannot load
decode_calls(upload) ==
    IF upload.decode = "unidentified" THEN <<"Image.open">>
    ELSE <<"Image.open", "ImageFeatures">>

\* "location" of a response: the coordinates if latitude is given
location_of(req) ==
    IF req.location.given
    THEN [given |-> TRUE, latitude |-> req.location.latitude,
          longitude |-> req.location.longitude]
    ELSE NoLocation

\* how a try block ends, and the calls it has entered by then, in order
Ended(outcome, ran) == [outcome |-> outcome, ran |-> ran]

\* (mutant) the size check made only after the image is decoded
analyze_soil_try_late_check(req) ==
    IF req.upload.decode = "unreadable" THEN Ended(Exception("read failed"), << >>)
    ELSE IF req.upload.len = 0 THEN Ended(HTTPException(400, <<"Empty image file">>), << >>)
    ELSE LET features == decode_features(req.upload)
         IN  IF features.raised # "none" THEN Ended(features, decode_calls(req.upload))
             ELSE IF req.upload.len > SizeLimit
             THEN Ended(HTTPException(400, <<"Image file too large (max 20MB)">>),
                        decode_calls(req.upload))
             ELSE Ended(Return([ status |-> "success",
                                 analysis_type |-> "soil_classification",
                                 image_dimensions |-> [ width |-> req.upload.width,
                                                        height |-> req.upload.height ],
                                 location |-> location_of(req),
                                 result |-> classify_soil(features.value, req.upload.seed) ]),
                        Append(decode_calls(req.upload), "classify_soil"))

\* the body of the try block of analyze_soil, after contents = await image.read()
analyze_soil_try(req) ==
    IF req.upload.decode = "unreadable" THEN Ended(Exception("read failed"), << >>)
    ELSE IF req.upload.len = 0 THEN Ended(HTTPException(400, <<"Empty image file">>), << >>)
    ELSE IF req.upload.len > SizeLimit
    THEN Ended(HTTPException(400, <<"Image file too large (max 20MB)">>), << >>)
    ELSE LET features == decode_features(req.upload)
         IN  IF features.raised # "none" THEN Ended(features, decode_calls(req.upload))
             ELSE Ended(Return([ status |-> "success",
                                 analysis_type |-> "soil_classification",
                                 image_dimensions |-> [ width |-> req.upload.width,
                                                        height |-> req.upload.height ],
                                 location |-> location_of(req),
                                 result |-> classify_soil(features.value, req.upload.seed) ]),
                        Append(decode_calls(req.upload), "classify_soil"))

\* the body of the try block of analyze_crop, after contents = await image.read()
analyze_crop_try(req) ==
    IF req.upload.decode = "unreadable" THEN Ended(Exception("read failed"), << >>)
    ELSE IF req.upload.len = 0 THEN Ended(HTTPException(400, <<"Empty image file">>), << >>)
    ELSE IF req.upload.len > SizeLimit
    THEN Ended(HTTPException(400, <<"Image file too large (max 20MB)">>), << >>)
    ELSE LET features == decode_features(req.upload)
         IN  IF features.raised # "none" THEN Ended(features, decode_calls(req.upload))
             ELSE Ended(Return([ status |-> "success",
                                 analysis_type |-> "crop_health",
                                 image_dimensions |-> [ width |-> req.upload.width,
                                                        height |-> req.upload.height ],
                                 crop_name |-> req.crop_name,
                                 location |-> location_of(req),
                                 result |-> analyze_crop_health(features.value,
                                                                req.upload.seed) ]),
                        Append(decode_calls(req.upload), "analyze_crop_health"))

\* (mutant) the except HTTPException: raise clause left out
handle_rewrap(outcome, prefix) ==
    IF outcome.raised = "none" THEN [status_code |-> 200, body |-> outcome.value]
    ELSE IF outcome.raised = "HTTPException"
    THEN [status_code |-> 500, detail |-> <<prefix, outcome.detail[1]>>]
    ELSE [status_code |-> 500, detail |-> <<prefix, outcome.message>>]

\* except HTTPException: raise / except Exception as e: raise
\* HTTPException(500, prefix + str(e)); what FastAPI then sends
handle(outcome, prefix) ==
    IF outcome.raised = "none" THEN [status_code |-> 200, body |-> outcome.value]
    ELSE IF outcome.raised = "HTTPException"
    THEN [status_code |-> outcome.status_code, detail |-> outcome.detail]
    ELSE [status_code |-> 500, detail |-> <<prefix, outcome.message>>]

\* the try block of the endpoint of req
endpoint_try(req) ==
    IF req.endpoint = "/analyze-soil" THEN analyze_soil_try(req) ELSE analyze_crop_try(req)

\* the response analyze_soil / analyze_crop end with once the upload is read
respond(req) ==
    IF req.endpoint = "/analyze-soil"
    THEN handle(endpoint_try(req).outcome, "Failed to analyze soil image: ")
    ELSE handle(endpoint_try(req).outcome, "Failed to analyze crop image: ")

\* whether serving req runs the scorer, and the generator that leaves behind
scorer_runs(req) ==
    \E i \in 1 .. Len(endpoint_try(req).ran) :
        endpoint_try(req).ran[i] \in {"classify_soil", "analyze_crop_health"}

generator_after(req) ==
    IF req.endpoint = "/analyze-soil"
    THEN Advance(RandomState(req.upload.seed), StreamLen)
    ELSE detect_diseases(ImageFeatures(req.upload.stat),
                         Advance(RandomState(req.upload.seed), 1)).g

NoConn == [pc |-> "idle"]
Clients == {"c1", "c2"}

GoodUpload == Upload(1024, "ok", DarkImage, 5)
OtherUpload == Upload(2048, "ok", WhiteImage, MaxSeed)

Uploads ==
    { Upload(0, "ok", DarkImage, 0),
      GoodUpload, OtherUpload,
      Upload(1024, "unidentified", DarkImage, 6),
      Upload(1024, "truncated", DarkImage, 7),
      Upload(1024, "unreadable", DarkImage, 8),
      Upload(SizeLimit, "ok", GreenImage, 9),
      Upload(SizeLimit + 1, "ok", GreenImage, 10) }

Requests ==
    [ endpoint : {"/analyze-soil", "/analyze-crop"},
      content_type : {"none", "", "image/png", "text/plain"},
      upload : Uploads,
      crop_name : {"cotton"},
      location : {NoLocation} ]
    \cup
    [ endpoint : {"/analyze-soil", "/analyze-crop"},
      content_type : {"image/jpeg"},
      upload : {GoodUpload},
      crop_name : {"cotton"},
      location : {Vidarbha} ]

\* the other clients whose handler is suspended in await image.read() while
\* the handler of c runs
reading_besides(c) == {d \in Clients \ {c} : conn[d].pc = "reading"}

\* a request arrives at analyze_soil / analyze_crop: the handler validates the
\* file type and either raises 400 or suspends in await image.read()
Receive(c, req) ==
    /\ conn[c].pc = "idle"
    /\ conn' = [conn EXCEPT ![c] =
                  IF not_image_type(req.content_type)
                  THEN [ pc |-> "done", req |-> req, ran |-> << >>,
                         overlapped |-> reading_besides(c),
                         response |-> [ status_code |-> 400,
                                        detail |-> <<"Expected image file, got ",
                                                     req.content_type>> ] ]
                  ELSE [pc |-> "reading", req |-> req]]
    /\ UNCHANGED <<SOIL_TYPES, CROP_DISEASES, rng, args, call, earlier, seen>>

\* image.read() completes: the handler runs to its end
Resume(c) ==
    /\ conn[c].pc = "reading"
    /\ conn' = [conn EXCEPT ![c] =
                  [ pc |-> "done", req |-> conn[c].req,
                    ran |-> endpoint_try(conn[c].req).ran,
                    overlapped |-> reading_besides(c),
                    response |-> respond(conn[c].req) ]]
    /\ rng' = IF scorer_runs(conn[c].req) THEN generator_after(conn[c].req) ELSE rng
    /\ SOIL_TYPES' = IF scorer_runs(conn[c].req) /\ conn[c].req.endpoint = "/analyze-soil"
                     THEN soil_types_after_call(ImageFeatures(conn[c].req.upload.stat),
                                                conn[c].req.upload.seed)
                     ELSE SOIL_TYPES
    /\ UNCHANGED <<CROP_DISEASES, args, call, earlier, seen>>

\* the client has its response; the connection serves the next request
Close(c) ==
    /\ conn[c].pc = "done"
    /\ conn' = [conn EXCEPT ![c] = NoConn]
    /\ UNCHANGED <<SOIL_TYPES, CROP_DISEASES, rng, args, call, earlier, seen>>

-----------------------------------------------------------------------------
(* Specifications *)

\* the state after import of app.py, a caller holding features and a seed
InitWith(argset) ==
    /\ SOIL_TYPES = SoilTable
    /\ CROP_DISEASES = DiseaseTable
    /\ rng = NoRng
    /\ args \in argset
    /\ call = NoCall
    /\ earlier = NoCall
    /\ seen = << >>
    /\ conn = [c \in Clients |-> NoConn]

ArgsOf(images, seeds) == [features : {ImageFeatures(st) : st \in images}, seed : seeds]

\* Spec: one caller applies the scorers to any image of Images and any seed
Init == InitWith(ArgsOf(Images, Seeds))

Next == ClassifySoilCall \/ AnalyzeCropHealthCall

Spec == Init /\ [][Next]_vars

\* SpecDet: a caller repeats calls, with any other calls in between
DetArgs == ArgsOf({DarkImage, WhiteImage, Solid(250, 30, 80)}, {0, 5, MaxSeed})

InitDet == InitWith(DetArgs)

NextDet == ClassifySoilCall \/ AnalyzeCropHealthCall \/ Remember \/ NewArgs(DetArgs)

SpecDet == InitDet /\ [][NextDet]_vars

\* SpecTest: test_soil_classification runs
InitTest == InitWith(ArgsOf({DarkImage}, {0}))

NextTest == TestSoilStep

SpecTest == InitTest /\ [][NextTest]_vars

\* SpecApi: clients upload to the two endpoints, concurrently
InitApi == InitWith(ArgsOf({DarkImage}, {0}))

NextApi ==
    \E c \in Clients :
        \/ \E req \in Requests : Receive(c, req)
        \/ Resume(c)
        \/ Close(c)

SpecApi == InitApi /\ [][NextApi]_vars

\* SpecHue: analyze_crop_health is applied to solid images whose channel means
\* range over a grid from 0 to 255, in tenths of a level, dense below level 1
\* and around the brightness threshold 140
HueLevels == {0, 3, 5, 10, 11, 100, 1000, 1390, 1410, 2000, 2550}

HueImages == {Stat(r, g, b, 0, 0, 0) : r \in HueLevels, g \in HueLevels, b \in HueLevels}

InitHue == InitWith(ArgsOf(HueImages, {0}))

NextHue == AnalyzeCropHealthCall

SpecHue == InitHue /\ [][NextHue]_vars

\* SpecFrame: one process serves a client's uploads and is called directly,
\* in any order
FrameArgs == ArgsOf({DarkImage, WhiteImage, TieImage}, {0, 5, MaxSeed})

InitFrame == InitWith(FrameArgs)

NextFrame ==
    \/ ClassifySoilCall
    \/ AnalyzeCropHealthCall
    \/ NewArgs(FrameArgs)
    \/ \E req \in Requests : Receive("c1", req)
    \/ Resume("c1")
    \/ Close("c1")

SpecFrame == InitFrame /\ [][NextFrame]_vars

-----------------------------------------------------------------------------
(* Properties *)

IsSoilCall == call.fn = "classify_soil"
IsCropCall == call.fn = "analyze_crop_health"

\* C1: for every valid ImageFeatures and every seed, the recommendations list
\* returned by classify_soil is non-empty.
C1_SoilRecommendationsNonEmpty ==
    IsSoilCall => call.result.recommendations # << >>

\* the request of client c was served to its end after passing the media type,
\* emptiness and size checks
PassedValidation(c) ==
    /\ conn[c].pc = "done"
    /\ ~not_image_type(conn[c].req.content_type)
    /\ conn[c].req.upload.len > 0
    /\ conn[c].req.upload.len <= SizeLimit

\* C2: a non-empty payload within the size limit, declared as an image, that
\* cannot be decoded as an image ends analyze_soil and analyze_crop with a
\* client error (4xx), not a server error.
C2_DecodeFailureIsClientError ==
    \A c \in Clients :
        ( /\ PassedValidation(c)
          /\ conn[c].req.content_type \in {"image/png", "image/jpeg"}
          /\ conn[c].req.upload.decode \in {"unidentified", "truncated"} )
        => conn[c].response.status_code \in 400 .. 499

\* the call just returned repeats the remembered call: same scorer, same
\* features, same seed
RepeatsEarlier ==
    /\ earlier.fn # "none"
    /\ call.fn = earlier.fn
    /\ call.features = earlier.features
    /\ call.seed = earlier.seed

\* C3: two calls of classify_soil (likewise of analyze_crop_health) with the
\* same features and the same seed return identical results in every field,
\* whatever calls were made in between.
C3_Deterministic ==
    RepeatsEarlier => call.result = earlier.result

\* a repeated call, reached after a call on other arguments in between
C3_Witness ==
    RepeatsEarlier /\ earlier.between

\* C4: the confidence returned by classify_soil lies in [0.60, 0.96].
C4_SoilConfidenceBounds ==
    IsSoilCall =>
        /\ call.result.confidence >= Dec(60, 100)
        /\ call.result.confidence <= Dec(96, 100)

\* a soil call whose winner leads by so much that the confidence is at least 0.90
C4_Witness ==
    IsSoilCall /\ call.result.confidence >= Dec(90, 100)

\* C5: the health_score returned by analyze_crop_health lies in [0.10, 1.00].
C5_HealthScoreBounds ==
    IsCropCall =>
        /\ call.result.health_score >= Dec(10, 100)
        /\ call.result.health_score <= ONE

\* a crop call on the green image, whose unclamped health exceeds 1
C5_Witness ==
    /\ IsCropCall
    /\ call.features = ImageFeatures(GreenImage)
    /\ call.result.health_score = ONE

\* C6: the three solid-colour images (30,25,20), (180,80,60), (220,210,180),
\* each classified with the seed of its own bytes, never all get the same soil
\* type: at least 2 distinct types among the three results.
C6_Diversity ==
    Len(seen) = Len(TestSoilImages) =>
        Cardinality({seen[i] : i \in 1 .. Len(seen)}) >= 2

\* the test has classified all three images, and the noise made the dark image
\* come out like the red one
C6_Witness ==
    /\ Len(seen) = Len(TestSoilImages)
    /\ seen[1] = seen[2]

\* C7: disease_count equals the length of detected_diseases, and every entry
\* has affected_area_pct in [0, 100] and confidence in [0, 1].
C7_DiseaseShape ==
    IsCropCall =>
        /\ call.result.disease_count = Len(call.result.detected_diseases)
        /\ \A i \in 1 .. Len(call.result.detected_diseases) :
             LET d == call.result.detected_diseases[i]
             IN  /\ d.affected_area_pct >= 0
                 /\ d.affected_area_pct <= 100 * ONE
                 /\ d.confidence >= 0
                 /\ d.confidence <= ONE

\* a crop call that detected two diseases at once
C7_Witness ==
    IsCropCall /\ call.result.disease_count = 2

\* C8: the texture label is a function of texture_variance alone: above 50
\* 'clayey', in (30, 50] 'loamy', at most 30 'sandy', and nothing else.
C8_TextureLabel ==
    IsSoilCall =>
        LET tv == call.features.texture_variance
            texture == call.result.texture
        IN  /\ tv > 50 * ONE => texture = "clayey"
            /\ (tv > 30 * ONE /\ tv <= 50 * ONE) => texture = "loamy"
            /\ tv <= 30 * ONE => texture = "sandy"
            /\ texture \in {"clayey", "loamy", "sandy"}

\* a soil call on an image whose texture variance is exactly 50
C8_Witness ==
    /\ IsSoilCall
    /\ call.features.texture_variance = 50 * ONE
    /\ call.result.texture = "loamy"

\* C9: the recommendations list returned by analyze_crop_health is non-empty;
\* when no other advisory fired, the default maintenance lines are there.
C9_CropRecommendationsNonEmpty ==
    IsCropCall =>
        /\ call.result.recommendations # << >>
        /\ ( /\ call.result.health_score >= Dec(5, 10)
             /\ call.result.detected_diseases = << >>
             /\ call.features.greenness >= Dec(35, 100)
             /\ call.features.brightness <= 180 * ONE )
           => call.result.recommendations =
                << "Continue current management practices",
                   "Monitor weekly for any emerging pest or disease symptoms",
                   "Apply preventive fungicide spray during wet weather periods" >>

\* a crop call in which no advisory condition fired
C9_Witness ==
    /\ IsCropCall
    /\ call.result.health_score >= Dec(5, 10)
    /\ call.result.detected_diseases = << >>
    /\ call.features.greenness >= Dec(35, 100)
    /\ call.features.brightness <= 180 * ONE

\* C10: for the solid near-white image (230,230,225), whatever the seed,
\* analyze_crop_health returns exactly one detected disease, 'Powdery Mildew'
\* (brightness > 170 and saturation < 0.3).
C10_WhiteImageMildew ==
    (IsCropCall /\ call.features = ImageFeatures(WhiteImage)) =>
        /\ call.features.brightness > 170 * ONE
        /\ call.features.saturation < Dec(3, 10)
        /\ Len(call.result.detected_diseases) = 1
        /\ call.result.detected_diseases[1].disease = "Powdery Mildew"
        /\ call.result.disease_count = 1

\* a crop call on the near-white image
C10_Witness ==
    /\ IsCropCall
    /\ call.features = ImageFeatures(WhiteImage)
    /\ call.seed = MaxSeed

\* the names of the diseases a crop result lists
detected_names(result) ==
    {result.detected_diseases[i].disease : i \in 1 .. Len(result.detected_diseases)}

\* C11: for the solid green image RGB (50,160,50), whatever the seed,
\* analyze_crop_health returns health_score >= 0.5 and detects none of Leaf
\* Blight, Powdery Mildew, Rust or Bacterial Wilt.
C11_GreenImageHealthy ==
    (IsCropCall /\ call.features = ImageFeatures(GreenImage)) =>
        /\ call.result.health_score >= Dec(5, 10)
        /\ detected_names(call.result)
             \cap {"Leaf Blight", "Powdery Mildew", "Rust", "Bacterial Wilt"} = {}

\* a crop call on the green image whose health noise is the lowest draw
C11_Witness ==
    /\ IsCropCall
    /\ call.features = ImageFeatures(GreenImage)
    /\ Sample(RandomState(call.seed), 0) = 0

\* the request fails one of the three checks made before the image is decoded
FailsValidation(req) ==
    \/ not_image_type(req.content_type)
    \/ req.upload.len = 0
    \/ req.upload.len > SizeLimit

\* C12: in analyze_soil and analyze_crop a request with a non-image media
\* type, an empty payload or a payload larger than 20 MB is rejected with a
\* 400 error, and neither feature extraction nor classify_soil /
\* analyze_crop_health is run for it; a payload of exactly 20 MB is not
\* rejected for size.
C12_ValidationPrecedesCore ==
    \A c \in Clients :
        conn[c].pc = "done" =>
            /\ FailsValidation(conn[c].req) =>
                 /\ conn[c].response.status_code = 400
                 /\ conn[c].ran = << >>
            /\ conn[c].req.upload.len = SizeLimit =>
                 ~ ( /\ conn[c].response.status_code = 400
                     /\ conn[c].response.detail = <<"Image file too large (max 20MB)">> )
            /\ ( /\ ~FailsValidation(conn[c].req)
                 /\ conn[c].req.upload.len = SizeLimit
                 /\ conn[c].req.upload.decode = "ok" )
               => conn[c].response.status_code = 200

\* one client was turned away for a payload one byte above the limit while the
\* other, with a payload of exactly the limit, got its analysis
C12_Witness ==
    /\ conn["c1"].pc = "done"
    /\ ~not_image_type(conn["c1"].req.content_type)
    /\ conn["c1"].req.upload.len = SizeLimit + 1
    /\ conn["c1"].response.status_code = 400
    /\ conn["c2"].pc = "done"
    /\ conn["c2"].req.upload.len = SizeLimit
    /\ conn["c2"].response.status_code = 200
    /\ conn["c2"].ran # << >>

\* a classify_soil result with every key of the returned dict, each of its kind
WellFormedSoil(r) ==
    /\ DOMAIN r = { "soil_type", "soil_description", "confidence", "texture",
                    "estimated_ph", "organic_carbon_pct", "drainage", "nutrients",
                    "suitable_crops", "common_regions", "recommendations",
                    "image_analysis" }
    /\ r.soil_type \in {SOIL_TYPES[i].type : i \in DOMAIN SOIL_TYPES}
    /\ r.texture \in {"clayey", "loamy", "sandy"}
    /\ r.drainage \in {SOIL_TYPES[i].drainage : i \in DOMAIN SOIL_TYPES}
    /\ r.confidence \in Int /\ r.estimated_ph \in Int /\ r.organic_carbon_pct \in Int
    /\ DOMAIN r.nutrients = {"nitrogen_kg_ha", "phosphorus_kg_ha", "potassium_kg_ha"}
    /\ \A k \in DOMAIN r.nutrients : r.nutrients[k] \in Int
    /\ DOMAIN r.recommendations = 1 .. Len(r.recommendations)

\* an analyze_crop_health result with every key of the returned dict
WellFormedCrop(r) ==
    /\ DOMAIN r = { "health_score", "assessment", "growth_stage", "detected_diseases",
                    "disease_count", "recommendations", "image_analysis" }
    /\ r.health_score \in Int
    /\ r.assessment.kind \in {"healthy", "monitor", "urgent", "treatment"}
    /\ r.growth_stage \in { "Vegetative (active growth)", "Flowering/Reproductive",
                            "Maturity (ready for harvest)", "Early/Seedling" }
    /\ r.disease_count \in 0 .. Len(CROP_DISEASES)
    /\ \A i \in 1 .. Len(r.detected_diseases) :
         \E k \in DOMAIN CROP_DISEASES :
             /\ r.detected_diseases[i].treatment = CROP_DISEASES[k].treatment
             /\ r.detected_diseases[i].prevention = CROP_DISEASES[k].prevention
    /\ DOMAIN r.recommendations = 1 .. Len(r.recommendations)

\* C13: for every ImageFeatures derivable from channel means and deviations in
\* [0,255], the black image included, and every seed, feature derivation,
\* classify_soil and analyze_crop_health end with a well-formed result: no
\* division by zero, no table index out of range.
C13_Totality ==
    /\ args.features.raised = "none"
    /\ IsSoilCall =>
         /\ argmax(noisy_scores(soil_scores(call.features), RandomState(call.seed)))
                \in DOMAIN SOIL_TYPES
         /\ WellFormedSoil(call.result)
    /\ IsCropCall => WellFormedCrop(call.result)

\* analyze_crop_health has returned on the all-zero black image, with a disease
\* entry read from the table
C13_Witness ==
    /\ IsCropCall
    /\ call.features = ImageFeatures(Solid(0, 0, 0))
    /\ call.features.brightness = 0
    /\ call.features.saturation = 0
    /\ call.result.disease_count > 0

\* the result the request gets when it is the only one ever served: the
\* scorer of its endpoint on its own features, drawing from a generator at the
\* start of the stream of its own seed
ServedAlone(req) ==
    IF req.endpoint = "/analyze-soil"
    THEN classify_soil_with(ImageFeatures(req.upload.stat),
                            [seed |-> req.upload.seed, pos |-> 0])
    ELSE analyze_crop_health_with(ImageFeatures(req.upload.stat),
                                  [seed |-> req.upload.seed, pos |-> 0])

\* C14: each invocation of classify_soil / analyze_crop_health uses its own
\* generator seeded at the start of that call, so whatever the interleaving of
\* concurrent analyze_soil / analyze_crop requests, every request's result
\* equals the result it gets when run alone.
C14_NoInterference ==
    \A c \in Clients :
        (conn[c].pc = "done" /\ conn[c].response.status_code = 200) =>
            conn[c].response.body.result = ServedAlone(conn[c].req)

\* two requests with different seeds were in flight together: the first was
\* analysed while the second was suspended in its read, then the second
C14_Witness ==
    /\ conn["c1"].pc = "done" /\ conn["c2"].pc = "done"
    /\ conn["c1"].response.status_code = 200
    /\ conn["c2"].response.status_code = 200
    /\ conn["c1"].overlapped = {"c2"}
    /\ conn["c1"].req.upload.seed # conn["c2"].req.upload.seed
    /\ conn["c1"].req.endpoint = conn["c2"].req.endpoint

\* C15: every crop analysis result contains, besides health_score, assessment,
\* growth_stage, detected_diseases, disease_count, recommendations and
\* image_analysis, a model_info record with a model field.
C15_ModelInfo ==
    IsCropCall =>
        /\ { "health_score", "assessment", "growth_stage", "detected_diseases",
             "disease_count", "recommendations", "image_analysis" }
               \subseteq DOMAIN call.result
        /\ "model_info" \in DOMAIN call.result
        /\ "model" \in DOMAIN call.result.model_info

\* C16: on the single seeded generator of a classify_soil call all score-noise
\* draws come first, then the pH draw and the organic-carbon draw, then the
\* nutrient draws (nitrogen, phosphorus, potassium), and the confidence noise
\* is drawn only after the nutrient draws; the generator is never re-seeded
\* within the call.
C16_DrawOrder ==
    IsSoilCall =>
        /\ \A k \in 1 .. Len(soil_draws) :
               soil_draws[k] = "score_noise" => k - 1 < drawn_before("estimated_ph")
        /\ drawn_before("estimated_ph") < drawn_before("organic_carbon_pct")
        /\ drawn_before("organic_carbon_pct") < drawn_before("nitrogen_kg_ha")
        /\ drawn_before("nitrogen_kg_ha") < drawn_before("phosphorus_kg_ha")
        /\ drawn_before("phosphorus_kg_ha") < drawn_before("potassium_kg_ha")
        /\ drawn_before("potassium_kg_ha") < drawn_before("confidence")
        /\ rng = Advance([seed |-> call.seed, pos |-> 0], Len(soil_draws))

\* C17: soil confidence equals clamp(0.65 + margin*0.12 + noise, 0.60, 0.96)
\* for every input, margin being the top noisy score minus the second and
\* noise the seeded confidence perturbation: the upper clamp is applied only
\* once, after the noise is added.
C17_ConfidenceFormula ==
    IsSoilCall =>
        LET g == RandomState(call.seed)
            margin == score_margin(noisy_scores(soil_scores(call.features), g))
            noise == Uniform(g, drawn_before("confidence"), 0 - Dec(3, 100), Dec(3, 100))
        IN  call.result.confidence =
                Max(Dec(60, 100), Min(Dec(96, 100),
                    Dec(65, 100) + Times(margin, 12, 100) + noise))

\* the noisy scores of the call that has returned
call_scores == noisy_scores(soil_scores(call.features), RandomState(call.seed))

\* C18: classify_soil selects the profile with the maximum noisy score, the
\* earliest in SOIL_TYPES order when several share the maximum, and the i-th
\* computed score belongs to the i-th table entry (Black Cotton, Red,
\* Alluvial, Laterite, Sandy Loam).
C18_ArgmaxSelection ==
    IsSoilCall =>
        /\ Len(call_scores) = Len(SOIL_TYPES)
        /\ \E i \in DOMAIN SOIL_TYPES :
             /\ call.result.soil_type = SOIL_TYPES[i].type
             /\ \A j \in DOMAIN SOIL_TYPES : call_scores[j] <= call_scores[i]
             /\ \A j \in 1 .. (i - 1) : call_scores[j] < call_scores[i]
        /\ soil_scores(call.features) =
             << black_score(call.features), red_score(call.features),
                alluvial_score(call.features), laterite_score(call.features),
                sandy_score(call.features) >>
        /\ [i \in DOMAIN SOIL_TYPES |-> SOIL_TYPES[i].type] =
             << "Black Cotton Soil (Vertisol)", "Red Soil (Alfisol)", "Alluvial Soil",
                "Laterite Soil", "Sandy Loam" >>

\* a soil call in which the Red Soil and the Laterite score tie at the
\* maximum, and Red Soil, the earlier of the two, is reported
C18_Witness ==
    /\ IsSoilCall
    /\ call.features = ImageFeatures(TieImage)
    /\ call_scores[2] = call_scores[4]
    /\ \A j \in DOMAIN SOIL_TYPES : call_scores[j] <= call_scores[2]
    /\ call.result.soil_type = "Red Soil (Alfisol)"

\* the row of SOIL_TYPES whose type the result reports as soil_type
reported_profile(result) ==
    SOIL_TYPES[CHOOSE i \in DOMAIN SOIL_TYPES : SOIL_TYPES[i].type = result.soil_type]

\* C19: in every classify_soil result estimated_ph lies within the ph_range
\* and organic_carbon_pct within the organic_carbon_pct range of the very
\* profile reported as soil_type, and description, drainage, suitable_crops
\* and common_regions are those of that same profile.
C19_ProfileConsistency ==
    IsSoilCall =>
        LET r == call.result
            p == reported_profile(r)
        IN  /\ \E i \in DOMAIN SOIL_TYPES : SOIL_TYPES[i].type = r.soil_type
            /\ p.ph_range[1] <= r.estimated_ph /\ r.estimated_ph <= p.ph_range[2]
            /\ p.organic_carbon_pct[1] <= r.organic_carbon_pct
            /\ r.organic_carbon_pct <= p.organic_carbon_pct[2]
            /\ r.soil_description = p.description
            /\ r.drainage = p.drainage
            /\ r.suitable_crops = p.suitable_crops
            /\ r.common_regions = p.india_regions

\* a Sandy Loam result whose pH is the lowest of its range and whose organic
\* carbon is the highest of its range
C19_Witness ==
    /\ IsSoilCall
    /\ call.result.soil_type = "Sandy Loam"
    /\ call.result.estimated_ph = reported_profile(call.result).ph_range[1]
    /\ call.result.organic_carbon_pct = reported_profile(call.result).organic_carbon_pct[2]

\* the seven soil advisories, in the order of their checks
soil_advisories ==
    << "Apply gypsum (2-3 tonnes/ha) to reduce alkalinity",
       "Apply agricultural lime (1-2 tonnes/ha) to correct acidity",
       "Increase organic matter with FYM (10-15 tonnes/ha) or green manure",
       "Apply nitrogen fertilizer (urea 100-150 kg/ha) in split doses",
       "Apply phosphorus (DAP 50-100 kg/ha) at sowing time",
       "Create raised beds or ridges to improve drainage during monsoon",
       "Apply mulch (5-7 cm) to conserve soil moisture" >>

\* whether the condition of the k-th advisory holds of the values in result r
advisory_due(k, r) ==
    CASE k = 1 -> r.estimated_ph > Dec(75, 10)
      [] k = 2 -> r.estimated_ph < Dec(55, 10)
      [] k = 3 -> r.organic_carbon_pct < Dec(5, 10)
      [] k = 4 -> r.nutrients.nitrogen_kg_ha < 200 * ONE
      [] k = 5 -> r.nutrients.phosphorus_kg_ha < 15 * ONE
      [] k = 6 -> r.drainage = "poor"
      [] k = 7 -> r.drainage = "excessive"

\* C20: soil recommendations appear in the fixed order of their checks: gypsum
\* (pH > 7.5), lime (pH < 5.5), organic matter (organic carbon < 0.5),
\* nitrogen (< 200), phosphorus (< 15), raised beds (drainage poor), mulch
\* (drainage excessive); each is present if and only if its condition holds,
\* and none appears twice.
C20_RecommendationOrder ==
    IsSoilCall =>
        LET r == call.result
            recs == r.recommendations
        IN  /\ \A i \in 1 .. Len(recs) :
                 \E k \in 1 .. Len(soil_advisories) : recs[i] = soil_advisories[k]
            /\ \A k \in 1 .. Len(soil_advisories) :
                 advisory_due(k, r) <=> \E i \in 1 .. Len(recs) : recs[i] = soil_advisories[k]
            /\ \A i, j \in 1 .. Len(recs) :
                 i < j => \E k, l \in 1 .. Len(soil_advisories) :
                              /\ k < l
                              /\ recs[i] = soil_advisories[k]
                              /\ recs[j] = soil_advisories[l]

\* a Black Cotton result with five advisories: gypsum, organic matter,
\* nitrogen, phosphorus and raised beds
C20_Witness ==
    /\ IsSoilCall
    /\ Len(call.result.recommendations) = 5
    /\ call.result.recommendations[1] = soil_advisories[1]
    /\ call.result.recommendations[3] = soil_advisories[4]
    /\ call.result.recommendations[4] = soil_advisories[5]
    /\ call.result.recommendations[5] = soil_advisories[6]

\* the five disease names, in the order of their checks
disease_names ==
    <<"Leaf Blight", "Powdery Mildew", "Rust", "Bacterial Wilt", "Aphid Infestation">>

\* whether the threshold conjunction of the k-th disease holds of features f
disease_due(k, f) ==
    CASE k = 1 -> f.redness > Dec(38, 100) /\ f.greenness < Dec(4, 10)
                  /\ f.brightness < 160 * ONE
      [] k = 2 -> f.brightness > 170 * ONE /\ f.saturation < Dec(3, 10)
      [] k = 3 -> f.redness > Dec(42, 100) /\ f.greenness < Dec(35, 100)
                  /\ f.brightness > 100 * ONE /\ f.brightness < 180 * ONE
      [] k = 4 -> f.saturation < Dec(25, 100) /\ f.brightness < 140 * ONE
                  /\ f.greenness < Dec(38, 100)
      [] k = 5 -> f.texture_variance > 45 * ONE /\ f.greenness > Dec(35, 100)

\* C21: the five disease triggers are evaluated independently: an entry for a
\* disease is present if and only if its own threshold conjunction holds,
\* several may be present at once, each at most once, and always in the order
\* Leaf Blight, Powdery Mildew, Rust, Bacterial Wilt, Aphid Infestation.
C21_IndependentTriggers ==
    IsCropCall =>
        LET d == call.result.detected_diseases
        IN  /\ \A k \in 1 .. Len(disease_names) :
                 disease_due(k, call.features)
                     <=> \E i \in 1 .. Len(d) : d[i].disease = disease_names[k]
            /\ \A i \in 1 .. Len(d) :
                 \E k \in 1 .. Len(disease_names) : d[i].disease = disease_names[k]
            /\ \A i, j \in 1 .. Len(d) :
                 i < j => \E k, l \in 1 .. Len(disease_names) :
                              /\ k < l
                              /\ d[i].disease = disease_names[k]
                              /\ d[j].disease = disease_names[l]

\* a crop call in which the blight and the rust trigger both held, and both
\* entries are there, blight first
C21_Witness ==
    /\ IsCropCall
    /\ disease_due(1, call.features) /\ disease_due(3, call.features)
    /\ Len(call.result.detected_diseases) = 2
    /\ call.result.detected_diseases[1].disease = "Leaf Blight"
    /\ call.result.detected_diseases[2].disease = "Rust"

\* how many entries of the detected list d have severity 'high'
high_count(d) == Cardinality({i \in 1 .. Len(d) : d[i].severity = "high"})

\* C22: the assessment follows the fixed decision tree: no diseases and
\* health_score >= 0.7 gives the healthy message, no diseases and health_score
\* < 0.7 the monitor message, a disease of severity 'high' the URGENT message
\* naming the number of high-severity entries, diseases none of which is
\* 'high' the treatment message naming the number of detected diseases; exactly
\* one of the four is produced.
C22_AssessmentTree ==
    IsCropCall =>
        LET d == call.result.detected_diseases
            h == call.result.health_score
            a == call.result.assessment
        IN  /\ a.kind \in {"healthy", "monitor", "urgent", "treatment"}
            /\ (d = << >> /\ h >= Dec(7, 10)) => a = [kind |-> "healthy", count |-> 0]
            /\ (d = << >> /\ h < Dec(7, 10)) => a = [kind |-> "monitor", count |-> 0]
            /\ high_count(d) > 0 => a = [kind |-> "urgent", count |-> high_count(d)]
            /\ (d # << >> /\ high_count(d) = 0)
                   => a = [kind |-> "treatment", count |-> Len(d)]

\* a crop call with two detected diseases of which one is of high severity:
\* the URGENT message names 1
C22_Witness ==
    /\ IsCropCall
    /\ Len(call.result.detected_diseases) = 2
    /\ high_count(call.result.detected_diseases) = 1
    /\ call.result.assessment = [kind |-> "urgent", count |-> 1]

\* the text x is an item of the list s
Has(s, x) == \E i \in 1 .. Len(s) : s[i] = x

\* the three default maintenance lines
crop_defaults ==
    << "Continue current management practices",
       "Monitor weekly for any emerging pest or disease symptoms",
       "Apply preventive fungicide spray during wet weather periods" >>

\* C23: the isolation advisory is present if and only if a disease was
\* detected; the expert-contact (KVK) and insurance advisories are present if
\* and only if a detected disease has severity 'high', and then follow the
\* isolation advisory; the three default maintenance lines are appended if and
\* only if no other advisory (low health, disease, low greenness, high
\* brightness) was appended, and then the list has exactly 3 items.
C23_CropRecommendationGating ==
    IsCropCall =>
        LET recs == call.result.recommendations
            d == call.result.detected_diseases
            f == call.features
            isolate == "Isolate affected plants to prevent spread to healthy ones"
            kvk == "Contact local Krishi Vigyan Kendra (KVK) for expert diagnosis"
            insurance == "Consider crop insurance claim if yield loss exceeds 33%"
            high == \E i \in 1 .. Len(d) : d[i].severity = "high"
            other == \/ call.result.health_score < Dec(5, 10)
                     \/ d # << >>
                     \/ f.greenness < Dec(35, 100)
                     \/ f.brightness > 180 * ONE
        IN  /\ Has(recs, isolate) <=> d # << >>
            /\ Has(recs, kvk) <=> high
            /\ Has(recs, insurance) <=> high
            /\ high => \E i \in 1 .. (Len(recs) - 2) :
                           /\ recs[i] = isolate
                           /\ recs[i + 1] = kvk
                           /\ recs[i + 2] = insurance
            /\ (\E k \in 1 .. 3 : Has(recs, crop_defaults[k])) <=> ~other
            /\ ~other => recs = crop_defaults

\* a crop call with low health and a high-severity disease: the soil-testing
\* line comes first, then isolation, expert contact and insurance
C23_Witness ==
    /\ IsCropCall
    /\ call.result.health_score < Dec(5, 10)
    /\ high_count(call.result.detected_diseases) > 0
    /\ Len(call.result.recommendations) >= 4
    /\ call.result.recommendations[2]
           = "Isolate affected plants to prevent spread to healthy ones"
    /\ call.result.recommendations[4]
           = "Consider crop insurance claim if yield loss exceeds 33%"

\* C24: the growth stage is chosen by fixed priority: 'Vegetative' when
\* greenness > 0.42 and texture_variance > 35; otherwise 'Flowering' when
\* greenness > 0.38; otherwise 'Maturity' when brightness > 160 and saturation
\* < 0.25; otherwise 'Early/Seedling'.  An input satisfying the vegetative and
\* a later condition is labelled by the earlier check; exactly one stage is
\* produced.
C24_GrowthStagePriority ==
    IsCropCall =>
        LET f == call.features
            stage == call.result.growth_stage
            vegetative == f.greenness > Dec(42, 100) /\ f.texture_variance > 35 * ONE
            flowering == f.greenness > Dec(38, 100)
            maturity == f.brightness > 160 * ONE /\ f.saturation < Dec(25, 100)
        IN  /\ stage \in { "Vegetative (active growth)", "Flowering/Reproductive",
                           "Maturity (ready for harvest)", "Early/Seedling" }
            /\ vegetative => stage = "Vegetative (active growth)"
            /\ (~vegetative /\ flowering) => stage = "Flowering/Reproductive"
            /\ (~vegetative /\ ~flowering /\ maturity)
                   => stage = "Maturity (ready for harvest)"
            /\ (~vegetative /\ ~flowering /\ ~maturity) => stage = "Early/Seedling"

\* a crop call on features that satisfy the vegetative, the flowering and the
\* maturity condition together, labelled vegetative
C24_Witness ==
    /\ IsCropCall
    /\ call.features.greenness > Dec(42, 100)
    /\ call.features.texture_variance > 35 * ONE
    /\ call.features.brightness > 160 * ONE
    /\ call.features.saturation < Dec(25, 100)
    /\ call.result.growth_stage = "Vegetative (active growth)"

\* C25: the reference tables SOIL_TYPES and CROP_DISEASES are left unchanged
\* by every operation: after any sequence of classify_soil,
\* analyze_crop_health, analyze_soil and analyze_crop calls, successful or
\* failing, both equal their values at process start.
C25_TablesUnchanged ==
    /\ SOIL_TYPES = SoilTable
    /\ CROP_DISEASES = DiseaseTable

\* the process has returned from a direct classify_soil call and has answered
\* an upload it could not decode with status 500
C25_Witness ==
    /\ IsSoilCall
    /\ conn["c1"].pc = "done"
    /\ conn["c1"].response.status_code = 500
    /\ rng # NoRng

failure_prefix(req) ==
    IF req.endpoint = "/analyze-soil"
    THEN "Failed to analyze soil image: " ELSE "Failed to analyze crop image: "

\* C27: in analyze_soil and analyze_crop a 400 error raised inside the
\* processing block (empty payload, oversized payload) reaches the caller with
\* status 400 and its original detail and is never rewrapped as 500; every
\* other exception raised while reading, decoding or analyzing yields status
\* 500; in no error case is a 'success' response produced.
C27_ErrorMapping ==
    \A c \in Clients :
        (conn[c].pc = "done" /\ ~not_image_type(conn[c].req.content_type)) =>
            LET up == conn[c].req.upload
                resp == conn[c].response
                empty == up.decode # "unreadable" /\ up.len = 0
                oversized == up.decode # "unreadable" /\ up.len > SizeLimit
                other == \/ up.decode = "unreadable"
                         \/ /\ up.len > 0 /\ up.len <= SizeLimit
                            /\ up.decode \in {"unidentified", "truncated"}
            IN  /\ empty => resp = [status_code |-> 400, detail |-> <<"Empty image file">>]
                /\ oversized => resp = [ status_code |-> 400,
                                         detail |-> <<"Image file too large (max 20MB)">> ]
                /\ other => /\ resp.status_code = 500
                            /\ resp.detail[1] = failure_prefix(conn[c].req)
                /\ (empty \/ oversized \/ other) => "body" \notin DOMAIN resp
                /\ "body" \in DOMAIN resp => resp.body.status = "success"

\* one client got the 400 of its empty payload as raised, the other a 500 for
\* a read that failed
C27_Witness ==
    /\ conn["c1"].pc = "done"
    /\ conn["c1"].req.upload.len = 0
    /\ conn["c1"].response = [status_code |-> 400, detail |-> <<"Empty image file">>]
    /\ conn["c2"].pc = "done"
    /\ conn["c2"].req.upload.decode = "unreadable"
    /\ conn["c2"].response.status_code = 500

\* the response with which the media-type check turns a request away
type_rejection(req) ==
    [status_code |-> 400, detail |-> <<"Expected image file, got ", req.content_type>>]

\* C28: the media-type check of analyze_soil and analyze_crop rejects a request
\* only when a content type is declared and does not start with 'image/'; a
\* request whose content type is missing or empty is not rejected by it and
\* proceeds to payload reading, decoding and analysis.
C28_MediaTypeCheck ==
    \A c \in Clients :
        conn[c].pc # "idle" =>
            LET req == conn[c].req
                declared == req.content_type \notin {"none", ""}
                image == req.content_type \in {"image/png", "image/jpeg"}
                rejected == conn[c].pc = "done" /\ conn[c].response = type_rejection(req)
            IN  /\ rejected <=> (declared /\ ~image)
                /\ (~declared /\ conn[c].pc = "done") =>
                       /\ conn[c].response = respond(req)
                       /\ (req.upload.decode = "ok" /\ req.upload.len \in 1 .. SizeLimit)
                              => /\ conn[c].response.status_code = 200
                                 /\ Len(conn[c].ran) = 3

\* one request without a content type and one with an empty content type were
\* both read, decoded and analysed
C28_Witness ==
    /\ conn["c1"].pc = "done" /\ conn["c2"].pc = "done"
    /\ conn["c1"].req.content_type = "none"
    /\ conn["c2"].req.content_type = ""
    /\ conn["c1"].response.status_code = 200
    /\ conn["c2"].response.status_code = 200

\* the pre-noise score of the profile the result reports, and the largest
\* pre-noise score
selected_raw_score ==
    soil_scores(call.features)
        [CHOOSE i \in DOMAIN SOIL_TYPES : SOIL_TYPES[i].type = call.result.soil_type]

best_raw_score ==
    CHOOSE m \in {soil_scores(call.features)[i] : i \in 1 .. Len(soil_scores(call.features))} :
        \A i \in 1 .. Len(soil_scores(call.features)) : soil_scores(call.features)[i] <= m

\* C29: each score noise lies in [-0.2, 0.2], so the profile classify_soil
\* selects has a pre-noise score no more than 0.4 below the maximum pre-noise
\* score: a candidate trailing the best raw score by more than 0.4 is never
\* selected, whatever the seed.
C29_NoiseCannotOverturn ==
    IsSoilCall =>
        /\ \A i \in 1 .. Len(call_scores) :
               Abs(call_scores[i] - soil_scores(call.features)[i]) <= Dec(2, 10)
        /\ best_raw_score - selected_raw_score <= Dec(4, 10)

\* a soil call in which the noise overturned the raw order: the selected
\* profile trails the best raw score, by no more than 0.4
C29_Witness ==
    /\ IsSoilCall
    /\ selected_raw_score < best_raw_score
    /\ best_raw_score - selected_raw_score <= Dec(4, 10)

\* C30: every entry of detected_diseases agrees with the CROP_DISEASES table:
\* its severity, treatment and prevention equal those of the table profile
\* whose name equals the entry's disease name.
C30_DiseaseEntriesMatchTable ==
    IsCropCall =>
        \A i \in 1 .. Len(call.result.detected_diseases) :
            LET e == call.result.detected_diseases[i]
            IN  /\ \E k \in DOMAIN CROP_DISEASES : CROP_DISEASES[k].name = e.disease
                /\ \A k \in DOMAIN CROP_DISEASES :
                       CROP_DISEASES[k].name = e.disease =>
                           /\ e.severity = CROP_DISEASES[k].severity
                           /\ e.treatment = CROP_DISEASES[k].treatment
                           /\ e.prevention = CROP_DISEASES[k].prevention

\* a crop call that detected Aphid Infestation, the last row of the table,
\* with the severity 'low' written in the scorer
C30_Witness ==
    /\ IsCropCall
    /\ call.result.disease_count = 1
    /\ call.result.detected_diseases[1].disease = "Aphid Infestation"
    /\ call.result.detected_diseases[1].severity = "low"

====
